---- MODULE Spec2Model ----
(***************************************************************************)
(* Room-keyed signaling relay of the live-stream platform                  *)
(* (src/pages/_app.js, SocketHandler): the activeStreams registry, the     *)
(* per-socket data, the Socket.IO rooms, and one action per socket event   *)
(* handler.  Each handler runs to completion before the next one starts.   *)
(***************************************************************************)
EXTENDS Integers, FiniteSets, Sequences, Bags, TLC

\* ------------------------------------------------------------------ bounds
\* Number of sockets that connect during one run; ids are 1..NumConns.
NumConns == 3

\* Longest sequence of handled events that is explored.
MaxSteps == 6

\* Number of ice-candidates one client page receives per peer transport.
MaxCands == 2

\* Number of sockets the global-broadcast relay accepts during one run.
NumClients == 3

\* Longest sequence of user and raw-client events sent to that relay.
MaxEvents == 2

\* Longest queue of relay events waiting for one client page.
MaxInbox == 2

\* Number of sockets the client socket module creates during one run.
MaxSockets == 4

\* ---------------------------------------------------------------- universe
Streams == {"main-stream", "alt-stream"}

\* socket.data.streamId / data.streamId when undefined
NoStream == "undefined"

\* an absent connection id (undefined fromId / viewerId / toId)
NoId == 0

ConnIds == 1..NumConns

\* socket.data of a socket that has set nothing yet (SocketData, all optional).
\* isBroadcaster is only ever tested for truthiness, so undefined is FALSE.
InitData == [streamId |-> NoStream, viewerId |-> NoId, isBroadcaster |-> FALSE]

\* payload of offer / answer / ice-candidate; sdp and candidate are opaque
\* and are relayed untouched, so only the routing fields are kept
SignalingData(s, from, viewer, to) ==
    [streamId |-> s, fromId |-> from, viewerId |-> viewer, toId |-> to]

NoData == SignalingData(NoStream, NoId, NoId, NoId)

\* one emitted event as it arrives at socket `to`
Msg(to, kind, flag, count, data) ==
    [to |-> to, kind |-> kind, flag |-> flag, count |-> count, data |-> data]

\* --- universe of the global-broadcast relay and its pages
ClientIds == 1..NumClients

\* one relay event as it arrives at socket `to`; `from` is the id the relay
\* stamps on it (broadcasterId, viewerId, fromId); counts is the payload of
\* status-update: broadcasters, viewers, totalConnections
GMsg(to, kind, from) ==
    [to |-> to, kind |-> kind, from |-> from, counts |-> <<0, 0, 0>>]

\* one event sent to the relay by socket c; target is data.broadcasterId,
\* data.targetId or data.viewerId
GEvent(kind, c, target) == [kind |-> kind, conn |-> c, target |-> target]

\* connections.set(socket.id, {id, role: null, streamId: null})
NewConnection == [role |-> "null", streamId |-> "null"]

NoRooms == [r \in {"viewers", "broadcasters", "stream-default"} |-> {}]

\* state of the page that owns a socket.  kind is "none" (no socket),
\* "raw", "watch" or "broadcast"; pc is peerConnectionRef of WatchPage,
\* peers the keys of peerConnectionsRef of the broadcaster page, listening
\* its 'viewer-requesting-stream' listener; requested, offerSeen and
\* endedSeen record what the watch page has emitted and handled.
NoPage ==
    [kind |-> "none", streamAvailable |-> FALSE, pc |-> FALSE,
     isStreaming |-> FALSE, listening |-> FALSE, peers |-> {},
     closing |-> FALSE, requested |-> FALSE, offerSeen |-> FALSE,
     endedSeen |-> FALSE]

\* --- the pages that use the client socket module
Pages == {"WatchPage", "BroadcastPage"}

\* --- the client socket module: no call made yet
NoCall == [name |-> "none", wasConnected |-> FALSE, returned |-> NoId,
           created |-> FALSE]

VARIABLES
    nextId,         \* number of sockets accepted so far (next id is nextId+1)
    connected,      \* ids of the sockets that are connected now
    socketData,     \* socket.data of every socket
    rooms,          \* Socket.IO room of every stream id: the sockets in it
    activeStreams,  \* the Map activeStreams: stream id -> session
    sent,           \* bag of the events emitted by the handler that ran last
    last,           \* the event handled last
    pre,            \* registry, rooms and socket data before that handler
    joinLeave,      \* tracks a join-stream directly followed by leave-stream
    steps,          \* number of events handled so far
    \* --- the viewer page (src/app/layout.tsx, WatchPage)
    peerConnectionRef,  \* "null", "new" (no remote description), "remote"
    offerPc,            \* where the async handleOffer stands
    pcQueue,            \* addIceCandidate calls queued in the transport
                        \* behind a pending setRemoteDescription
    iceArrived,         \* candidates received for the current transport
    iceApplied,         \* candidates the transport accepted, in order
    isStreamActive,     \* the page's isStreamActive state
    error,              \* the page's error state
    \* --- the broadcaster page (src/app/broadcast/page.tsx, BroadcastPage)
    viewerConnections,  \* keys of viewerConnectionsRef
    bIceArrived,        \* candidates received from viewers
    bIceApplied,        \* candidates applied to a viewer transport
    \* --- the message channel of the two pages (src/lib/socket.ts) and
    \* --- the broadcaster page's session
    vSocket,            \* viewer page: "disconnected" or "connected"
    vIntentSent,        \* join-as-viewer was emitted on this connection
    bSocket,            \* broadcaster page: "disconnected" or "connected"
    bIntentSent,        \* join-as-broadcaster was emitted on this connection
    bStreaming,         \* connectionState.isStreaming of the broadcaster page
    bOfferSent,         \* the offer of the running stream was emitted
    bAnswers,           \* viewer ids of the answers received for that offer
    bRemoteSet,         \* viewer transports given a remote description
    \* --- the global-broadcast relay (src/pages/api/socket.js) and the
    \* --- pages that talk to it (src/pages/_app.js WatchPage,
    \* --- src/pages/broadcast.js)
    gNextId,            \* number of sockets that relay accepted so far
    connections,        \* the Map connections: socket id -> role, streamId
    gRooms,             \* the rooms 'viewers', 'broadcasters', 'stream-default'
    page,               \* per socket: the page that owns it and its state
    inbox,              \* per socket: relay events not yet handled by the page
    gSent,              \* bag of the events emitted by the last relay step
    gLast,              \* the relay event handled last
    gPre,               \* the sender's recorded role before that event
    gSteps,             \* number of user and raw-client events so far
    \* --- the client socket module (src/lib/socket.ts)
    socket,             \* the module variable: index of a socket, or NoId
    sockets,            \* every socket created so far: "connecting",
                        \* "connected" or "closed" (disconnect() was called)
    held,               \* per page: the socket its effect got from
                        \* initializeSocket, NoId after its cleanup
    lastCall            \* the last call of the module and what it returned

relayVars == <<nextId, connected, socketData, rooms, activeStreams, sent,
               last, pre, joinLeave, steps>>

clientVars == <<peerConnectionRef, offerPc, pcQueue, iceArrived, iceApplied,
                isStreamActive, error, viewerConnections, bIceArrived,
                bIceApplied>>

pageVars == <<vSocket, vIntentSent, bSocket, bIntentSent, bStreaming,
              bOfferSent, bAnswers, bRemoteSet>>

globalVars == <<gNextId, connections, gRooms, page, inbox, gSent, gLast,
                gPre, gSteps>>

moduleVars == <<socket, sockets, held, lastCall>>

vars == <<relayVars, clientVars, pageVars, globalVars, moduleVars>>

\* ------------------------------------------------------- Socket.IO emitting
\* socket.to(room).emit(...): every socket in the room except the sender
EmitToRoom(st, room, sender, kind, flag, count, data) ==
    LET targets == st.rooms[room] \ {sender}
    IN  SetToBag({Msg(t, kind, flag, count, data) : t \in targets})

\* io.to(id).emit(...): the room named by a socket id holds that socket
\* while it is connected and nobody afterwards
EmitToId(st, id, kind, flag, count, data) ==
    IF id \in st.connected
    THEN SetToBag({Msg(id, kind, flag, count, data)})
    ELSE EmptyBag

\* socket.emit(...): to the socket itself
EmitToSelf(c, kind, flag, count, data) ==
    SetToBag({Msg(c, kind, flag, count, data)})

\* Map.has / Map.delete on activeStreams
Has(streams, s) == s \in DOMAIN streams

MapDelete(streams, s) == [x \in DOMAIN streams \ {s} |-> streams[x]]

MapSet(streams, s, v) == [x \in DOMAIN streams \cup {s} |->
                             IF x = s THEN v ELSE streams[x]]

\* socket.join(room) / socket.leave(room)
RoomJoin(rm, room, c) == [rm EXCEPT ![room] = @ \cup {c}]

RoomLeave(rm, room, c) == [rm EXCEPT ![room] = @ \ {c}]

\* the relay state a handler reads and writes
RelayState == [streams |-> activeStreams, rooms |-> rooms,
               data |-> socketData, connected |-> connected]

\* ------------------------------------------------------------ the handlers
\* Each handler is a function of the relay state, the socket and the event
\* argument; it returns the new state and the bag of emitted events.

\* start-stream that always installs a fresh session, dropping the viewers
OnStartStream_ResetsViewers(st, c, s) ==
    LET data1 == [st.data EXCEPT ![c].streamId = s,
                                 ![c].isBroadcaster = TRUE]
        streams1 == MapSet(st.streams, s,
                           [broadcasterId |-> c, viewers |-> {},
                            isActive |-> TRUE])
        rooms1 == RoomJoin(st.rooms, s, c)
        st1 == [st EXCEPT !.data = data1, !.streams = streams1,
                          !.rooms = rooms1]
    IN  [st |-> st1,
         out |-> EmitToRoom(st1, s, c, "stream-status", TRUE, 0, NoData)]

\* socket.on('start-stream', streamId)
OnStartStream(st, c, s) ==
    LET data1 == [st.data EXCEPT ![c].streamId = s,
                                 ![c].isBroadcaster = TRUE]
        streams1 ==
            IF ~Has(st.streams, s)
            THEN MapSet(st.streams, s,
                        [broadcasterId |-> c, viewers |-> {},
                         isActive |-> TRUE])
            ELSE [st.streams EXCEPT ![s].broadcasterId = c,
                                    ![s].isActive = TRUE]
        rooms1 == RoomJoin(st.rooms, s, c)
        st1 == [st EXCEPT !.data = data1, !.streams = streams1,
                          !.rooms = rooms1]
    IN  [st |-> st1,
         out |-> EmitToRoom(st1, s, c, "stream-status", TRUE, 0, NoData)]

\* join-stream that says nothing to the caller when the stream is absent
OnJoinStream_SilentWhenAbsent(st, c, s) ==
    LET data1 == [st.data EXCEPT ![c].streamId = s,
                                 ![c].viewerId = c,
                                 ![c].isBroadcaster = FALSE]
        rooms1 == RoomJoin(st.rooms, s, c)
        st1 == [st EXCEPT !.data = data1, !.rooms = rooms1]
    IN  IF Has(st.streams, s)
        THEN LET streams1 == [st.streams EXCEPT ![s].viewers = @ \cup {c}]
                 stream == streams1[s]
                 st2 == [st1 EXCEPT !.streams = streams1]
             IN  [st |-> st2,
                  out |-> EmitToId(st2, stream.broadcasterId, "viewer-count",
                                   FALSE, Cardinality(stream.viewers), NoData)
                          (+) (IF stream.isActive
                               THEN EmitToSelf(c, "stream-status", TRUE, 0,
                                               NoData)
                               ELSE EmptyBag)]
        ELSE [st |-> st1, out |-> EmptyBag]

\* socket.on('join-stream', streamId)
OnJoinStream(st, c, s) ==
    LET data1 == [st.data EXCEPT ![c].streamId = s,
                                 ![c].viewerId = c,
                                 ![c].isBroadcaster = FALSE]
        rooms1 == RoomJoin(st.rooms, s, c)
        st1 == [st EXCEPT !.data = data1, !.rooms = rooms1]
    IN  IF Has(st.streams, s)
        THEN LET streams1 == [st.streams EXCEPT ![s].viewers = @ \cup {c}]
                 stream == streams1[s]
                 st2 == [st1 EXCEPT !.streams = streams1]
             IN  [st |-> st2,
                  out |-> EmitToId(st2, stream.broadcasterId, "viewer-count",
                                   FALSE, Cardinality(stream.viewers), NoData)
                          (+) (IF stream.isActive
                               THEN EmitToSelf(c, "stream-status", TRUE, 0,
                                               NoData)
                               ELSE EmptyBag)]
        ELSE [st |-> st1,
              out |-> EmitToSelf(c, "stream-status", FALSE, 0, NoData)]

\* leave-stream that leaves the room but forgets stream.viewers.delete
OnLeaveStream_KeepsViewer(st, c, s) ==
    LET st1 == [st EXCEPT !.rooms = RoomLeave(st.rooms, s, c)]
    IN  IF Has(st.streams, s)
        THEN LET stream == st.streams[s]
             IN  [st |-> st1,
                  out |-> EmitToId(st1, stream.broadcasterId, "viewer-count",
                                   FALSE, Cardinality(stream.viewers), NoData)]
        ELSE [st |-> st1, out |-> EmptyBag]

\* socket.on('leave-stream', streamId)
OnLeaveStream(st, c, s) ==
    LET st1 == [st EXCEPT !.rooms = RoomLeave(st.rooms, s, c)]
    IN  IF Has(st.streams, s)
        THEN LET streams1 == [st.streams EXCEPT ![s].viewers = @ \ {c}]
                 stream == streams1[s]
                 st2 == [st1 EXCEPT !.streams = streams1]
             IN  [st |-> st2,
                  out |-> EmitToId(st2, stream.broadcasterId, "viewer-count",
                                   FALSE, Cardinality(stream.viewers), NoData)]
        ELSE [st |-> st1, out |-> EmptyBag]

\* offer that is relayed to the room without looking up the session
OnOffer_NoSessionCheck(st, c, data) ==
    IF data.streamId # NoStream
    THEN [st |-> st,
          out |-> EmitToRoom(st, data.streamId, c, "offer", FALSE, 0, data)]
    ELSE [st |-> st, out |-> EmptyBag]

\* socket.on('offer', data)
OnOffer(st, c, data) ==
    IF data.streamId # NoStream /\ Has(st.streams, data.streamId)
    THEN [st |-> st,
          out |-> EmitToRoom(st, data.streamId, c, "offer", FALSE, 0, data)]
    ELSE [st |-> st, out |-> EmptyBag]

\* answer that forwards the client's payload without stamping viewerId
OnAnswer_TrustsPayload(st, c, data) ==
    IF data.streamId # NoStream /\ Has(st.streams, data.streamId)
    THEN LET stream == st.streams[data.streamId]
         IN  [st |-> st,
              out |-> EmitToId(st, stream.broadcasterId, "answer", FALSE, 0,
                               data)]
    ELSE [st |-> st, out |-> EmptyBag]

\* socket.on('answer', data)
OnAnswer(st, c, data) ==
    IF data.streamId # NoStream /\ Has(st.streams, data.streamId)
    THEN LET stream == st.streams[data.streamId]
         IN  [st |-> st,
              out |-> EmitToId(st, stream.broadcasterId, "answer", FALSE, 0,
                               [data EXCEPT !.viewerId = c])]
    ELSE [st |-> st, out |-> EmptyBag]

\* socket.on('ice-candidate', data)
OnIceCandidate(st, c, data) ==
    IF data.streamId # NoStream /\ Has(st.streams, data.streamId)
    THEN LET stream == st.streams[data.streamId]
         IN  IF st.data[c].isBroadcaster
             THEN [st |-> st,
                   out |-> EmitToRoom(st, data.streamId, c, "ice-candidate",
                                      FALSE, 0, data)]
             ELSE [st |-> st,
                   out |-> EmitToId(st, stream.broadcasterId, "ice-candidate",
                                    FALSE, 0, [data EXCEPT !.viewerId = c])]
    ELSE [st |-> st, out |-> EmptyBag]

\* end-stream that cleans up with activeStreams.clear()
OnEndStream_ClearsAll(st, c, s) ==
    IF Has(st.streams, s)
    THEN [st |-> [st EXCEPT !.streams = << >>],
          out |-> EmitToRoom(st, s, c, "end-stream", FALSE, 0, NoData)
                  (+) EmitToRoom(st, s, c, "stream-status", FALSE, 0, NoData)]
    ELSE [st |-> st, out |-> EmptyBag]

\* end-stream that notifies the room but forgets activeStreams.delete
OnEndStream_KeepsSession(st, c, s) ==
    IF Has(st.streams, s)
    THEN [st |-> [st EXCEPT !.streams[s].isActive = FALSE],
          out |-> EmitToRoom(st, s, c, "end-stream", FALSE, 0, NoData)
                  (+) EmitToRoom(st, s, c, "stream-status", FALSE, 0, NoData)]
    ELSE [st |-> st, out |-> EmptyBag]

\* socket.on('end-stream', streamId)
OnEndStream(st, c, s) ==
    IF Has(st.streams, s)
    THEN [st |-> [st EXCEPT !.streams = MapDelete(st.streams, s)],
          out |-> EmitToRoom(st, s, c, "end-stream", FALSE, 0, NoData)
                  (+) EmitToRoom(st, s, c, "stream-status", FALSE, 0, NoData)]
    ELSE [st |-> st, out |-> EmptyBag]

\* Socket.IO closes the socket before it fires 'disconnect': the socket has
\* left every room and is no longer reachable under its own id.
CloseSocket(st, c) ==
    [st EXCEPT !.connected = @ \ {c},
               !.rooms = [r \in DOMAIN st.rooms |-> st.rooms[r] \ {c}]]

\* socket.on('disconnect', reason)
OnDisconnect(st0, c) ==
    LET st == CloseSocket(st0, c)
        streamId == st.data[c].streamId
    IN  IF streamId # NoStream /\ Has(st.streams, streamId)
        THEN IF st.data[c].isBroadcaster
             THEN [st |-> [st EXCEPT !.streams = MapDelete(st.streams,
                                                           streamId)],
                   out |-> EmitToRoom(st, streamId, c, "end-stream", FALSE, 0,
                                      NoData)
                           (+) EmitToRoom(st, streamId, c, "stream-status",
                                          FALSE, 0, NoData)]
             ELSE LET streams1 == [st.streams EXCEPT
                                      ![streamId].viewers = @ \ {c}]
                      stream == streams1[streamId]
                      st2 == [st EXCEPT !.streams = streams1]
                  IN  [st |-> st2,
                       out |-> EmitToId(st2, stream.broadcasterId,
                                        "viewer-count", FALSE,
                                        Cardinality(stream.viewers), NoData)]
        ELSE [st |-> st, out |-> EmptyBag]

\* ----------------------------------------------------------------- actions
Event(kind, c, s, data) == [kind |-> kind, conn |-> c, stream |-> s,
                            data |-> data]

\* the join-stream / leave-stream pair tracker
Idle == [phase |-> "idle", conn |-> NoId, stream |-> NoStream, count |-> 0,
         member |-> FALSE]

\* viewerCount(streamId): 0 when the session is absent
ViewerCount(streams, s) ==
    IF Has(streams, s) THEN Cardinality(streams[s].viewers) ELSE 0

TrackPair(kind, c, s) ==
    IF kind = "join-stream"
    THEN [phase |-> "joined", conn |-> c, stream |-> s,
          count |-> ViewerCount(activeStreams, s),
          member |-> Has(activeStreams, s) /\ c \in activeStreams[s].viewers]
    ELSE IF kind = "leave-stream" /\ joinLeave.phase = "joined"
            /\ joinLeave.conn = c /\ joinLeave.stream = s
         THEN [joinLeave EXCEPT !.phase = "left"]
         ELSE Idle

\* install the result r of a handler run for event ev
Handle(ev, r) ==
    /\ steps < MaxSteps
    /\ steps' = steps + 1
    /\ activeStreams' = r.st.streams
    /\ rooms' = r.st.rooms
    /\ socketData' = r.st.data
    /\ connected' = r.st.connected
    /\ sent' = r.out
    /\ last' = ev
    /\ pre' = RelayState
    /\ joinLeave' = TrackPair(ev.kind, ev.conn, ev.stream)
    /\ UNCHANGED <<clientVars, pageVars, globalVars, moduleVars>>

\* io.on('connection'): a fresh socket with a fresh id and empty data
Connect ==
    /\ nextId < NumConns
    /\ nextId' = nextId + 1
    /\ Handle(Event("connection", nextId + 1, NoStream, NoData),
              [st |-> [RelayState EXCEPT !.connected = @ \cup {nextId + 1}],
               out |-> EmptyBag])

StartStream(c, s) ==
    /\ c \in connected
    /\ Handle(Event("start-stream", c, s, NoData),
              OnStartStream(RelayState, c, s))
    /\ UNCHANGED nextId

JoinStream(c, s) ==
    /\ c \in connected
    /\ Handle(Event("join-stream", c, s, NoData),
              OnJoinStream(RelayState, c, s))
    /\ UNCHANGED nextId

LeaveStream(c, s) ==
    /\ c \in connected
    /\ Handle(Event("leave-stream", c, s, NoData),
              OnLeaveStream(RelayState, c, s))
    /\ UNCHANGED nextId

Offer(c, data) ==
    /\ c \in connected
    /\ Handle(Event("offer", c, data.streamId, data),
              OnOffer(RelayState, c, data))
    /\ UNCHANGED nextId

Answer(c, data) ==
    /\ c \in connected
    /\ Handle(Event("answer", c, data.streamId, data),
              OnAnswer(RelayState, c, data))
    /\ UNCHANGED nextId

IceCandidate(c, data) ==
    /\ c \in connected
    /\ Handle(Event("ice-candidate", c, data.streamId, data),
              OnIceCandidate(RelayState, c, data))
    /\ UNCHANGED nextId

EndStream(c, s) ==
    /\ c \in connected
    /\ Handle(Event("end-stream", c, s, NoData),
              OnEndStream(RelayState, c, s))
    /\ UNCHANGED nextId

Disconnect(c) ==
    /\ c \in connected
    /\ Handle(Event("disconnect", c, NoStream, NoData),
              OnDisconnect(RelayState, c))
    /\ UNCHANGED nextId

\* ids a client can put into a payload field: none, or an id handed out so far
PayloadIds == 0..nextId

Init ==
    /\ nextId = 0
    /\ connected = {}
    /\ socketData = [c \in ConnIds |-> InitData]
    /\ rooms = [s \in Streams |-> {}]
    /\ activeStreams = << >>
    /\ sent = EmptyBag
    /\ last = Event("init", NoId, NoStream, NoData)
    /\ pre = [streams |-> << >>, rooms |-> [s \in Streams |-> {}],
              data |-> [c \in ConnIds |-> InitData], connected |-> {}]
    /\ joinLeave = Idle
    /\ steps = 0
    /\ peerConnectionRef = "null"
    /\ offerPc = "idle"
    /\ pcQueue = << >>
    /\ iceArrived = << >>
    /\ iceApplied = << >>
    /\ isStreamActive = FALSE
    /\ error = ""
    /\ viewerConnections = {}
    /\ bIceArrived = << >>
    /\ bIceApplied = << >>
    /\ vSocket = "disconnected"
    /\ vIntentSent = FALSE
    /\ bSocket = "disconnected"
    /\ bIntentSent = FALSE
    /\ bStreaming = FALSE
    /\ bOfferSent = FALSE
    /\ bAnswers = {}
    /\ bRemoteSet = {}
    /\ gNextId = 0
    /\ connections = << >>
    /\ gRooms = NoRooms
    /\ page = [c \in ClientIds |-> NoPage]
    /\ inbox = [c \in ClientIds |-> << >>]
    /\ gSent = EmptyBag
    /\ gLast = GEvent("init", NoId, NoId)
    /\ gPre = "null"
    /\ gSteps = 0
    /\ socket = NoId
    /\ sockets = << >>
    /\ held = [p \in Pages |-> NoId]
    /\ lastCall = NoCall

Next ==
    \/ Connect
    \/ \E c \in ConnIds, s \in Streams : StartStream(c, s)
    \/ \E c \in ConnIds, s \in Streams : JoinStream(c, s)
    \/ \E c \in ConnIds, s \in Streams : LeaveStream(c, s)
    \/ \E c \in ConnIds, s \in Streams : \E f \in {NoId, c} :
          Offer(c, SignalingData(s, f, NoId, NoId))
    \/ \E c \in ConnIds, s \in Streams, v \in PayloadIds :
          Answer(c, SignalingData(s, NoId, v, NoId))
    \/ \E c \in ConnIds, s \in Streams, t \in PayloadIds :
          IceCandidate(c, SignalingData(s, NoId, NoId, t))
    \/ \E c \in ConnIds : Offer(c, NoData)
    \/ \E c \in ConnIds : Answer(c, NoData)
    \/ \E c \in ConnIds : IceCandidate(c, NoData)
    \/ \E c \in ConnIds, s \in Streams : EndStream(c, s)
    \/ \E c \in ConnIds : Disconnect(c)

Spec == Init /\ [][Next]_vars

\* ------------------------------------------------------- the client pages
\* WatchPage (src/app/layout.tsx) and BroadcastPage
\* (src/app/broadcast/page.tsx): the socket listeners and what they do to
\* the peer transport.  The transport itself is the browser's
\* RTCPeerConnection: it rejects addIceCandidate while it has no remote
\* description, and runs an addIceCandidate issued during a pending
\* setRemoteDescription after that call, in order.

\* socket 'offer' -> handleOffer, up to the first await.  One handleOffer
\* is followed at a time.
VOnOffer ==
    /\ vSocket = "connected"
    /\ offerPc = "idle"
    /\ error' = ""
    /\ peerConnectionRef' = IF peerConnectionRef = "null" THEN "new"
                            ELSE peerConnectionRef
    /\ offerPc' = "setRemote"
    /\ UNCHANGED <<pcQueue, iceArrived, iceApplied, isStreamActive,
                   viewerConnections, bIceArrived, bIceApplied,
                   relayVars, pageVars, globalVars, moduleVars>>

\* handleOffer: await setRemoteDescription(offer) resolves
VSetRemoteDone ==
    /\ offerPc = "setRemote"
    /\ peerConnectionRef' = "remote"
    /\ iceApplied' = iceApplied \o pcQueue
    /\ pcQueue' = << >>
    /\ offerPc' = "createAnswer"
    /\ UNCHANGED <<iceArrived, isStreamActive, viewerConnections,
                   bIceArrived, bIceApplied, error,
                   relayVars, pageVars, globalVars, moduleVars>>

\* handleOffer: setRemoteDescription rejects the description; the catch
\* block reports the error.  Queued candidates are applied only if an
\* earlier remote description is in place.
VSetRemoteFail ==
    /\ offerPc = "setRemote"
    /\ iceApplied' = IF peerConnectionRef = "remote"
                     THEN iceApplied \o pcQueue ELSE iceApplied
    /\ pcQueue' = << >>
    /\ offerPc' = "idle"
    /\ error' = "Failed to connect to stream"
    /\ UNCHANGED <<peerConnectionRef, iceArrived, isStreamActive,
                   viewerConnections, bIceArrived, bIceApplied,
                   relayVars, pageVars, globalVars, moduleVars>>

\* handleOffer: await createAnswer() resolves
VAnswerCreated ==
    /\ offerPc = "createAnswer"
    /\ offerPc' = "setLocal"
    /\ UNCHANGED <<peerConnectionRef, pcQueue, iceArrived, iceApplied,
                   isStreamActive, viewerConnections, bIceArrived,
                   bIceApplied, error,
                   relayVars, pageVars, globalVars, moduleVars>>

\* handleOffer: await setLocalDescription(answer) resolves, sendAnswer,
\* setIsStreamActive(true)
VSetLocalDone ==
    /\ offerPc = "setLocal"
    /\ offerPc' = "idle"
    /\ isStreamActive' = TRUE
    /\ UNCHANGED <<peerConnectionRef, pcQueue, iceArrived, iceApplied,
                   viewerConnections, bIceArrived, bIceApplied, error,
                   relayVars, pageVars, globalVars, moduleVars>>

\* socket 'ice-candidate' -> handleIceCandidate; the candidates are numbered
\* in arrival order
VOnIceCandidate ==
    /\ vSocket = "connected"
    /\ Len(iceArrived) < MaxCands
    /\ LET cand == Len(iceArrived) + 1
       IN  /\ iceArrived' = Append(iceArrived, cand)
           /\ IF peerConnectionRef = "null"
              THEN UNCHANGED <<iceApplied, pcQueue>>
              ELSE IF offerPc = "setRemote"
              THEN pcQueue' = Append(pcQueue, cand) /\ UNCHANGED iceApplied
              ELSE IF peerConnectionRef = "remote"
              THEN iceApplied' = Append(iceApplied, cand)
                   /\ UNCHANGED pcQueue
              ELSE UNCHANGED <<iceApplied, pcQueue>>
    /\ UNCHANGED <<peerConnectionRef, offerPc, isStreamActive,
                   viewerConnections, bIceArrived, bIceApplied, error,
                   relayVars, pageVars, globalVars, moduleVars>>

\* handleStreamEnd, which WatchPage passes to setupViewerListeners in the
\* position of onStreamAvailable: it runs on socket 'stream-available'.
\* Closing the transport abandons a handleOffer that is still awaiting.
VOnStreamAvailable ==
    /\ vSocket = "connected"
    /\ isStreamActive' = FALSE
    /\ peerConnectionRef' = "null"
    /\ offerPc' = "idle"
    /\ pcQueue' = << >>
    /\ iceArrived' = << >>
    /\ iceApplied' = << >>
    /\ UNCHANGED <<viewerConnections, bIceArrived, bIceApplied, error,
                   relayVars, pageVars, globalVars, moduleVars>>

\* handleStreamStatus, passed in the position of onStreamEnded: it runs on
\* socket 'stream-ended' and sets isStreamActive to true
VOnStreamEnded ==
    /\ vSocket = "connected"
    /\ isStreamActive' = TRUE
    /\ UNCHANGED <<peerConnectionRef, offerPc, pcQueue, iceArrived,
                   iceApplied, viewerConnections, bIceArrived, bIceApplied, error,
                   relayVars, pageVars, globalVars, moduleVars>>

\* BroadcastPage: socket 'ice-candidate' -> handleIceCandidate(data); the
\* listener passes one argument, so viewerId is undefined
BOnIceCandidate ==
    /\ bSocket = "connected"
    /\ Len(bIceArrived) < MaxCands
    /\ LET cand == Len(bIceArrived) + 1
       IN  /\ bIceArrived' = Append(bIceArrived, cand)
           /\ bIceApplied' = IF NoId \in viewerConnections
                             THEN Append(bIceApplied, cand)
                             ELSE bIceApplied
    /\ UNCHANGED <<peerConnectionRef, offerPc, pcQueue, iceArrived,
                   iceApplied, isStreamActive, viewerConnections, error,
                   relayVars, pageVars, globalVars, moduleVars>>

\* WatchPage: socket 'connect' -> updateConnectionStatus, which calls
\* joinAsViewer once the socket is connected
VSocketConnect ==
    /\ vSocket = "disconnected"
    /\ vSocket' = "connected"
    /\ vIntentSent' = TRUE
    /\ UNCHANGED <<clientVars, bSocket, bIntentSent, bStreaming, bOfferSent,
                   bAnswers, bRemoteSet, relayVars, globalVars, moduleVars>>

\* WatchPage: socket 'disconnect' -> updateConnectionStatus,
\* setIsStreamActive(false)
VSocketDisconnect ==
    /\ vSocket = "connected"
    /\ vSocket' = "disconnected"
    /\ vIntentSent' = FALSE
    /\ isStreamActive' = FALSE
    /\ UNCHANGED <<peerConnectionRef, offerPc, pcQueue, iceArrived,
                   iceApplied, error, viewerConnections, bIceArrived,
                   bIceApplied, bSocket, bIntentSent, bStreaming,
                   bOfferSent, bAnswers, bRemoteSet, relayVars, globalVars, moduleVars>>

\* BroadcastPage: socket 'connect' -> updateConnectionStatus only
BSocketConnect ==
    /\ bSocket = "disconnected"
    /\ bSocket' = "connected"
    /\ UNCHANGED <<clientVars, vSocket, vIntentSent, bIntentSent,
                   bStreaming, bOfferSent, bAnswers, bRemoteSet, relayVars, globalVars, moduleVars>>

\* BroadcastPage: socket 'disconnect' -> updateConnectionStatus only; what
\* was emitted on the lost connection is gone with it
BSocketDisconnect ==
    /\ bSocket = "connected"
    /\ bSocket' = "disconnected"
    /\ bIntentSent' = FALSE
    /\ UNCHANGED <<clientVars, vSocket, vIntentSent, bStreaming,
                   bOfferSent, bAnswers, bRemoteSet, relayVars, globalVars, moduleVars>>

\* BroadcastPage: startCamera / startScreenShare with setupWebRTCForViewers:
\* joinAsBroadcaster and sendOffer emit only while the socket is connected;
\* nothing is put into viewerConnectionsRef
BStartStreaming ==
    /\ bStreaming' = TRUE
    /\ bIntentSent' = (bSocket = "connected")
    /\ bOfferSent' = (bSocket = "connected")
    /\ bAnswers' = {}
    /\ UNCHANGED <<clientVars, vSocket, vIntentSent, bSocket, bRemoteSet,
                   relayVars, globalVars, moduleVars>>

\* BroadcastPage: socket 'answer' -> handleAnswer(data); the listener passes
\* one argument, so the viewerId parameter is undefined
BOnAnswer(v) ==
    /\ bSocket = "connected"
    /\ bAnswers' = IF bOfferSent THEN bAnswers \cup {v} ELSE bAnswers
    /\ bRemoteSet' = IF NoId \in viewerConnections
                     THEN bRemoteSet \cup {NoId} ELSE bRemoteSet
    /\ UNCHANGED <<clientVars, vSocket, vIntentSent, bSocket, bIntentSent,
                   bStreaming, bOfferSent, relayVars, globalVars, moduleVars>>

\* BroadcastPage: stopStreaming
BStopStreaming ==
    /\ bStreaming
    /\ bStreaming' = FALSE
    /\ bOfferSent' = FALSE
    /\ bAnswers' = {}
    /\ bRemoteSet' = {}
    /\ viewerConnections' = {}
    /\ UNCHANGED <<peerConnectionRef, offerPc, pcQueue, iceArrived,
                   iceApplied, isStreamActive, error, bIceArrived,
                   bIceApplied, vSocket, vIntentSent, bSocket, bIntentSent,
                   relayVars, globalVars, moduleVars>>

ClientNext ==
    \/ VOnOffer
    \/ VSetRemoteDone
    \/ VSetRemoteFail
    \/ VAnswerCreated
    \/ VSetLocalDone
    \/ VOnIceCandidate
    \/ VOnStreamAvailable
    \/ VOnStreamEnded
    \/ BOnIceCandidate
    \/ VSocketConnect
    \/ VSocketDisconnect
    \/ BSocketConnect
    \/ BSocketDisconnect
    \/ BStartStreaming
    \/ \E v \in ConnIds : BOnAnswer(v)
    \/ BStopStreaming

ClientSpec == Init /\ [][ClientNext]_vars

\* ------------------------------------------- the global-broadcast relay
\* src/pages/api/socket.js (the later of its two copies): a Map of
\* connections with a role each, and events sent to everybody, to the room
\* 'viewers' or to one socket id.  Its clients are the pages
\* src/pages/_app.js (WatchPage) and src/pages/broadcast.js, and raw clients
\* that may send any event.

GlobalState == [connections |-> connections, rooms |-> gRooms]

\* socket.broadcast.emit
GBroadcast(g, c, kind, from) ==
    SetToBag({GMsg(x, kind, from) : x \in DOMAIN g.connections \ {c}})

\* socket.broadcast.to(room).emit
GToRoom(g, room, c, kind, from) ==
    SetToBag({GMsg(x, kind, from) : x \in g.rooms[room] \ {c}})

\* socket.to(id).emit: the room named by a socket id holds that socket
GToId(g, id, c, kind, from) ==
    SetToBag({GMsg(x, kind, from) :
                 x \in (DOMAIN g.connections \cap {id}) \ {c}})

\* socket.emit
GToSelf(c, kind, from) == SetToBag({GMsg(c, kind, from)})

GLeaveAll(rm, c) == [r \in DOMAIN rm |-> rm[r] \ {c}]

\* io.on('connection')
GOnConnection(g, c) ==
    [g |-> [g EXCEPT !.connections =
                [x \in DOMAIN g.connections \cup {c} |->
                    IF x = c THEN NewConnection ELSE g.connections[x]]],
     out |-> GToSelf(c, "connected", NoId)]

\* socket.on('start-broadcast', data), data.streamId 'default'
GOnStartBroadcast(g, c) ==
    [g |-> [connections |-> [g.connections EXCEPT ![c] =
                [role |-> "broadcaster", streamId |-> "default"]],
            rooms |-> [g.rooms EXCEPT
                          !["broadcasters"] = @ \cup {c},
                          !["stream-default"] = @ \cup {c}]],
     out |-> GBroadcast(g, c, "stream-available", c)
             (+) GToSelf(c, "broadcast-started", NoId)]

\* socket.on('stop-broadcast')
GOnStopBroadcast(g, c) ==
    [g |-> [connections |-> [g.connections EXCEPT ![c] = NewConnection],
            rooms |-> [g.rooms EXCEPT
                          !["broadcasters"] = @ \ {c},
                          !["stream-default"] =
                              IF g.connections[c].streamId # "null"
                              THEN @ \ {c} ELSE @]],
     out |-> GBroadcast(g, c, "stream-ended", c)]

\* Array.from(connections.values()).find(conn => conn.role ===
\* 'broadcaster'): the Map keeps insertion order, which is the order of the
\* socket ids; NoId if there is none
ActiveBroadcaster(conns) ==
    LET bs == {x \in DOMAIN conns : conns[x].role = "broadcaster"}
    IN  IF bs = {} THEN NoId
        ELSE CHOOSE x \in bs : \A y \in bs : x <= y

\* socket.on('join-as-viewer')
GOnJoinAsViewer(g, c) ==
    LET conns == [g.connections EXCEPT ![c].role = "viewer"]
        b == ActiveBroadcaster(conns)
    IN  [g |-> [connections |-> conns,
                rooms |-> [g.rooms EXCEPT !["viewers"] = @ \cup {c}]],
         out |-> IF b # NoId
                 THEN GToSelf(c, "stream-available", b)
                 ELSE GToSelf(c, "no-active-stream", NoId)]

\* socket.on('offer', offer)
GOnOffer(g, c) ==
    [g |-> g, out |-> GToRoom(g, "viewers", c, "offer", c)]

\* socket.on('answer', data)
GOnAnswer(g, c, broadcasterId) ==
    [g |-> g, out |-> GToId(g, broadcasterId, c, "answer", c)]

\* socket.on('ice-candidate', data)
GOnIceCandidate(g, c, targetId) ==
    [g |-> g,
     out |-> IF targetId # NoId
             THEN GToId(g, targetId, c, "ice-candidate", c)
             ELSE GBroadcast(g, c, "ice-candidate", c)]

\* socket.on('get-status')
GOnGetStatus(g, c) ==
    LET n(role) == Cardinality({x \in DOMAIN g.connections :
                                   g.connections[x].role = role})
    IN  [g |-> g,
         out |-> SetToBag({[GMsg(c, "status-update", NoId) EXCEPT
                              !.counts = <<n("broadcaster"), n("viewer"),
                                 Cardinality(DOMAIN g.connections)>>]})]

\* socket.on('disconnect', reason): the socket has left its rooms
GOnDisconnect(g, c) ==
    [g |-> [connections |-> [x \in DOMAIN g.connections \ {c} |->
                                g.connections[x]],
            rooms |-> GLeaveAll(g.rooms, c)],
     out |-> IF g.connections[c].role = "broadcaster"
             THEN GBroadcast(g, c, "stream-ended", c) ELSE EmptyBag]

\* the handler the relay runs for an event of socket c; an event it has no
\* listener for ('viewer-requesting-stream') changes and emits nothing
GRun(g, ev) ==
    CASE ev.kind = "start-broadcast" -> GOnStartBroadcast(g, ev.conn)
      [] ev.kind = "stop-broadcast" -> GOnStopBroadcast(g, ev.conn)
      [] ev.kind = "join-as-viewer" -> GOnJoinAsViewer(g, ev.conn)
      [] ev.kind = "offer" -> GOnOffer(g, ev.conn)
      [] ev.kind = "answer" -> GOnAnswer(g, ev.conn, ev.target)
      [] ev.kind = "ice-candidate" -> GOnIceCandidate(g, ev.conn, ev.target)
      [] ev.kind = "get-status" -> GOnGetStatus(g, ev.conn)
      [] ev.kind = "disconnect" -> GOnDisconnect(g, ev.conn)
      [] OTHER -> [g |-> g, out |-> EmptyBag]

\* the events a page has a listener for whose handler does something to
\* the page; "connect" is the client socket's own connect event
Listens(pg, kind) ==
    CASE pg.kind = "watch" ->
            kind \in {"connect", "stream-available", "stream-ended",
                      "offer", "ice-candidate"}
      [] pg.kind = "broadcast" ->
            \/ kind \in {"answer", "ice-candidate"}
            \/ kind = "viewer-requesting-stream" /\ pg.listening
      [] OTHER -> FALSE

\* the relay events of one handler run, appended to the queues of the pages
\* that listen for them; no handler emits two events to one socket
Enqueue(ib, pgs, conns, out) ==
    [x \in ClientIds |->
        LET ms == {m \in BagToSet(out) : m.to = x /\ Listens(pgs[x], m.kind)}
        IN  IF x \notin DOMAIN conns THEN << >>
            ELSE IF ms = {} THEN ib[x]
            ELSE Append(ib[x], CHOOSE m \in ms : TRUE)]

NoEmit == GEvent("none", NoId, NoId)

\* WatchPage (src/pages/_app.js): the listener for relay event m; gives the
\* new page state and the event the page emits to the relay
WatchOn(pg, c, m) ==
    CASE m.kind = "connect" ->
            [pg |-> pg, emit |-> GEvent("join-as-viewer", c, NoId)]
      [] m.kind = "stream-available" ->
            [pg |-> [pg EXCEPT !.streamAvailable = TRUE], emit |-> NoEmit]
      [] m.kind = "stream-ended" ->
            [pg |-> [pg EXCEPT !.streamAvailable = FALSE, !.pc = FALSE,
                               !.endedSeen = TRUE],
             emit |-> GEvent("disconnect", c, NoId)]
      [] m.kind = "offer" ->
            IF m.from # NoId
            THEN [pg |-> [pg EXCEPT !.pc = TRUE, !.offerSeen = TRUE],
                  emit |-> GEvent("answer", c, m.from)]
            ELSE [pg |-> pg, emit |-> NoEmit]
      [] OTHER -> [pg |-> pg, emit |-> NoEmit]

\* the broadcaster page (src/pages/broadcast.js): the listener for m
BroadcastOn(pg, c, m) ==
    CASE m.kind = "viewer-requesting-stream" ->
            [pg |-> [pg EXCEPT !.peers = @ \cup {m.from}],
             emit |-> GEvent("offer", c, NoId)]
      [] OTHER -> [pg |-> pg, emit |-> NoEmit]

PageOn(pg, c, m) ==
    IF pg.kind = "watch" THEN WatchOn(pg, c, m) ELSE BroadcastOn(pg, c, m)

\* one step of the system: socket c's page becomes pg, `ib` are the queues
\* left, and the relay runs its handler for the event ev the page emitted
GStep(c, pg, ib, ev) ==
    LET r == GRun(GlobalState, ev)
        pgs == [page EXCEPT ![c] = IF ev.kind = "disconnect"
                                   THEN [pg EXCEPT !.kind = "none"] ELSE pg]
        ib2 == Enqueue(ib, pgs, r.g.connections, r.out)
    IN  /\ \A x \in ClientIds : Len(ib2[x]) <= MaxInbox
        /\ connections' = r.g.connections
        /\ gRooms' = r.g.rooms
        /\ page' = pgs
        /\ inbox' = ib2
        /\ gSent' = r.out
        /\ gLast' = ev
        /\ gPre' = connections[c].role
        /\ UNCHANGED <<gNextId, relayVars, clientVars, pageVars, moduleVars>>

\* a user or raw-client event: counted against MaxEvents
GUserStep(c, pg, ev) ==
    /\ gSteps < MaxEvents
    /\ gSteps' = gSteps + 1
    /\ GStep(c, pg, inbox, ev)

\* a page opens its socket (io({path: '/api/socket_io'})) and the relay
\* accepts it; the socket's connect event is queued for the page.  One raw
\* client is followed per run.
GConnect(kind) ==
    /\ gNextId < NumClients
    /\ kind = "raw" => \A x \in ClientIds : page[x].kind # "raw"
    /\ gNextId' = gNextId + 1
    /\ LET c == gNextId + 1
           r == GOnConnection(GlobalState, c)
           pgs == [page EXCEPT ![c] = [NoPage EXCEPT !.kind = kind]]
       IN  /\ connections' = r.g.connections
           /\ gRooms' = r.g.rooms
           /\ page' = pgs
           /\ inbox' = [inbox EXCEPT ![c] =
                           IF Listens(pgs[c], "connect")
                           THEN <<GMsg(c, "connect", NoId)>> ELSE << >>]
           /\ gSent' = r.out
           /\ gLast' = GEvent("connection", c, NoId)
           /\ gPre' = "null"
    /\ UNCHANGED <<gSteps, relayVars, clientVars, pageVars, moduleVars>>

\* the page of socket c handles the oldest relay event in its queue
GDeliver(c) ==
    /\ c \in DOMAIN connections
    /\ inbox[c] # << >>
    /\ ~page[c].closing
    /\ LET r == PageOn(page[c], c, Head(inbox[c]))
       IN  GStep(c, r.pg, [inbox EXCEPT ![c] = Tail(@)], r.emit)
    /\ UNCHANGED gSteps

\* WatchPage.startWatching
StartWatching(c) ==
    /\ c \in DOMAIN connections
    /\ page[c].kind = "watch"
    /\ page[c].streamAvailable
    /\ GUserStep(c, [page[c] EXCEPT !.requested = TRUE,
                                    !.offerSeen = FALSE],
                 GEvent("viewer-requesting-stream", c, c))

\* WatchPage.stopWatching
StopWatching(c) ==
    /\ c \in DOMAIN connections
    /\ page[c].kind = "watch"
    /\ page[c].pc
    /\ GUserStep(c, [page[c] EXCEPT !.pc = FALSE], NoEmit)

\* WatchPage.cleanup on unmount: stopWatching, socket.disconnect()
WatchCleanup(c) ==
    /\ c \in DOMAIN connections
    /\ page[c].kind = "watch"
    /\ GUserStep(c, [page[c] EXCEPT !.pc = FALSE],
                 GEvent("disconnect", c, NoId))

\* broadcaster page: startBroadcast(type), with a local stream at hand
StartBroadcast(c) ==
    /\ c \in DOMAIN connections
    /\ page[c].kind = "broadcast"
    /\ ~page[c].closing
    /\ GUserStep(c, [page[c] EXCEPT !.isStreaming = TRUE,
                                    !.listening = TRUE],
                 GEvent("start-broadcast", c, NoId))

\* broadcaster page: stopStream
StopStream(c) ==
    /\ c \in DOMAIN connections
    /\ page[c].kind = "broadcast"
    /\ page[c].isStreaming
    /\ ~page[c].closing
    /\ GUserStep(c, [page[c] EXCEPT !.isStreaming = FALSE, !.peers = {}],
                 GEvent("stop-broadcast", c, NoId))

\* broadcaster page: cleanup on unmount, first half: stopStream()
BroadcastCleanup(c) ==
    /\ c \in DOMAIN connections
    /\ page[c].kind = "broadcast"
    /\ ~page[c].closing
    /\ GUserStep(c, [page[c] EXCEPT !.isStreaming = FALSE, !.peers = {},
                                    !.closing = TRUE],
                 GEvent("stop-broadcast", c, NoId))

\* broadcaster page: cleanup, second half: socketRef.current.disconnect()
BroadcastClose(c) ==
    /\ c \in DOMAIN connections
    /\ page[c].closing
    /\ GStep(c, [page[c] EXCEPT !.closing = FALSE], inbox,
             GEvent("disconnect", c, NoId))
    /\ UNCHANGED gSteps

RawKinds ==
    {"start-broadcast", "stop-broadcast", "join-as-viewer", "offer",
     "answer", "ice-candidate", "get-status", "viewer-requesting-stream",
     "disconnect"}

\* a client other than the two pages sends an event of its choice
RawEmit(c, kind, target) ==
    /\ c \in DOMAIN connections
    /\ page[c].kind = "raw"
    /\ kind \in {"answer", "ice-candidate"} \/ target = NoId
    /\ GUserStep(c, page[c], GEvent(kind, c, target))

GlobalNext ==
    \/ \E kind \in {"raw", "watch", "broadcast"} : GConnect(kind)
    \/ \E c \in ClientIds : GDeliver(c)
    \/ \E c \in ClientIds : StartWatching(c)
    \/ \E c \in ClientIds : StopWatching(c)
    \/ \E c \in ClientIds : WatchCleanup(c)
    \/ \E c \in ClientIds : StartBroadcast(c)
    \/ \E c \in ClientIds : StopStream(c)
    \/ \E c \in ClientIds : BroadcastCleanup(c)
    \/ \E c \in ClientIds : BroadcastClose(c)
    \/ \E c \in ClientIds, kind \in RawKinds, target \in 0..NumClients :
          RawEmit(c, kind, target)

GlobalSpec == Init /\ [][GlobalNext]_vars

\* every queued relay event is handled by its page, and a cleanup that has
\* begun runs to its end
GlobalLive ==
    /\ GlobalSpec
    /\ \A c \in ClientIds : WF_vars(GDeliver(c)) /\ WF_vars(BroadcastClose(c))

\* ------------------------------------------- the client socket module
\* src/lib/socket.ts: one module variable `socket`; a socket made by io()
\* connects by itself (autoConnect, reconnection) until disconnect() is
\* called on it.

ModuleState == [socket |-> socket, sockets |-> sockets]

\* socket?.connected
IsConnected(m) == m.socket # NoId /\ m.sockets[m.socket] = "connected"

\* socket.disconnect(); socket = null
DropSocket(m) ==
    IF m.socket = NoId THEN m
    ELSE [socket |-> NoId,
          sockets |-> [m.sockets EXCEPT ![m.socket] = "closed"]]

\* initializeSocket that leaves an unconnected socket as it is and
\* overwrites the module variable
initializeSocket_KeepsOldSocket(m) ==
    IF IsConnected(m)
    THEN [m |-> m, returned |-> m.socket, created |-> FALSE]
    ELSE [m |-> [socket |-> Len(m.sockets) + 1,
                 sockets |-> Append(m.sockets, "connecting")],
          returned |-> Len(m.sockets) + 1, created |-> TRUE]

\* initializeSocket()
initializeSocket(m) ==
    IF IsConnected(m)
    THEN [m |-> m, returned |-> m.socket, created |-> FALSE]
    ELSE LET m2 == DropSocket(m)
         IN  [m |-> [socket |-> Len(m2.sockets) + 1,
                     sockets |-> Append(m2.sockets, "connecting")],
              returned |-> Len(m2.sockets) + 1, created |-> TRUE]

\* disconnectSocket()
disconnectSocket(m) == DropSocket(m)

\* the socket effect of page p calls initializeSocket and keeps the result
CallInitializeSocket(p) ==
    /\ IsConnected(ModuleState) \/ Len(sockets) < MaxSockets
    /\ LET r == initializeSocket(ModuleState)
       IN  /\ socket' = r.m.socket
           /\ sockets' = r.m.sockets
           /\ held' = [held EXCEPT ![p] = r.returned]
           /\ lastCall' = [name |-> "initializeSocket",
                           wasConnected |-> IsConnected(ModuleState),
                           returned |-> r.returned, created |-> r.created]
    /\ UNCHANGED <<relayVars, clientVars, pageVars, globalVars>>

\* the cleanup of page p's socket effect calls disconnectSocket
CallDisconnectSocket(p) ==
    /\ LET m == disconnectSocket(ModuleState)
       IN  /\ socket' = m.socket
           /\ sockets' = m.sockets
    /\ held' = [held EXCEPT ![p] = NoId]
    /\ lastCall' = [NoCall EXCEPT !.name = "disconnectSocket"]
    /\ UNCHANGED <<relayVars, clientVars, pageVars, globalVars>>

\* the transport of socket i comes up
TransportUp(i) ==
    /\ i \in DOMAIN sockets
    /\ sockets[i] = "connecting"
    /\ sockets' = [sockets EXCEPT ![i] = "connected"]
    /\ UNCHANGED <<socket, held, lastCall, relayVars, clientVars,
                   pageVars, globalVars>>

\* the transport of socket i is lost; the socket reconnects by itself
TransportDown(i) ==
    /\ i \in DOMAIN sockets
    /\ sockets[i] = "connected"
    /\ sockets' = [sockets EXCEPT ![i] = "connecting"]
    /\ UNCHANGED <<socket, held, lastCall, relayVars, clientVars,
                   pageVars, globalVars>>

ModuleNext ==
    \/ \E p \in Pages : CallInitializeSocket(p)
    \/ \E p \in Pages : CallDisconnectSocket(p)
    \/ \E i \in 1..MaxSockets : TransportUp(i)
    \/ \E i \in 1..MaxSockets : TransportDown(i)

ModuleSpec == Init /\ [][ModuleNext]_vars

\* ------------------------------------------------------------- vocabulary
\* number of events of one kind that the last handler delivered to socket c
Received(c, kind) ==
    BagCardinality([m \in {x \in DOMAIN sent : x.to = c /\ x.kind = kind}
                       |-> sent[m]])

\* number of stream-status(flag) events the last handler delivered to c
ReceivedStatus(c, flag) ==
    BagCardinality([m \in {x \in DOMAIN sent : /\ x.to = c
                                               /\ x.kind = "stream-status"
                                               /\ x.flag = flag}
                       |-> sent[m]])

\* number of viewer-count(n) events the last handler delivered to c
ReceivedCount(c, n) ==
    BagCardinality([m \in {x \in DOMAIN sent : /\ x.to = c
                                               /\ x.kind = "viewer-count"
                                               /\ x.count = n}
                       |-> sent[m]])

\* the connected viewers of session s before the last handler, other than
\* the socket c whose event was handled
LiveViewers(s, c) == (pre.streams[s].viewers \cap connected) \ {c}

\* connected sockets whose own data records them as broadcaster of s
SocketsBroadcasting(s) ==
    {c \in connected : socketData[c].isBroadcaster
                       /\ socketData[c].streamId = s}

\* ------------------------------------------------------------------ claims

\* C1: an end-stream for stream S from a connection that is not recorded as
\* S's broadcaster leaves S in the registry with the same broadcaster id,
\* viewer set and active flag.
C1_EndStreamByOtherKeepsSession ==
    (/\ last.kind = "end-stream"
     /\ Has(pre.streams, last.stream)
     /\ pre.streams[last.stream].broadcasterId # last.conn)
    => (/\ Has(activeStreams, last.stream)
        /\ activeStreams[last.stream] = pre.streams[last.stream])

\* C2: when the connection recorded as a session's broadcaster disconnects,
\* every connected viewer of that session gets exactly one end-stream and
\* exactly one stream-status(false), and the session is gone afterwards.
C2_BroadcasterDisconnectEndsSession ==
    last.kind = "disconnect" =>
        \A s \in DOMAIN pre.streams :
            pre.streams[s].broadcasterId = last.conn =>
                /\ \A v \in LiveViewers(s, last.conn) :
                      /\ Received(v, "end-stream") = 1
                      /\ ReceivedStatus(v, FALSE) = 1
                /\ ~Has(activeStreams, s)

\* C3: an offer from the broadcaster of S reaches every connected viewer of
\* S, every copy carries fromId = the broadcaster's id, and no socket that
\* is not a registered viewer of S gets it.
C3_OfferReachesExactlyViewers ==
    (/\ last.kind = "offer"
     /\ Has(pre.streams, last.stream)
     /\ pre.streams[last.stream].broadcasterId = last.conn)
    => (/\ \A v \in LiveViewers(last.stream, last.conn) :
              Received(v, "offer") >= 1
        /\ \A m \in DOMAIN sent :
              m.kind = "offer" =>
                  /\ m.data.fromId = last.conn
                  /\ m.to \in pre.streams[last.stream].viewers)

\* C4: between handlers at most one connection is recorded as the
\* broadcaster of a stream id: the session's broadcaster id and the sockets
\* whose own data say "broadcaster of this stream" name one connection.
C4_AtMostOneBroadcaster ==
    \A s \in Streams : Cardinality(SocketsBroadcasting(s)) <= 1

\* C5 as stated: for every registry state, stream S and connection C, a
\* join-stream(S) by C directly followed by a leave-stream(S) by C returns
\* the viewer count of S to its value before the join.
C5_JoinLeaveRestoresCountAlways ==
    joinLeave.phase = "left" =>
        ViewerCount(activeStreams, joinLeave.stream) = joinLeave.count

\* C5 (amended): the same, for a connection C that is not already in S's
\* viewer set when it joins.
C5_JoinLeaveRestoresCount ==
    (joinLeave.phase = "left" /\ ~joinLeave.member) =>
        ViewerCount(activeStreams, joinLeave.stream) = joinLeave.count

\* a join by a new viewer of an existing session, then its leave
C5_Witness ==
    /\ joinLeave.phase = "left"
    /\ ~joinLeave.member
    /\ last.kind = "leave-stream"
    /\ Has(pre.streams, last.stream)
    /\ last.conn \in pre.streams[last.stream].viewers
    /\ ViewerCount(pre.streams, last.stream) = joinLeave.count + 1

\* C6: whenever a join-stream, a leave-stream or a viewer's disconnect is
\* handled for an existing session, the session's broadcaster (when it is
\* connected) is sent one viewer-count whose value is the size of the viewer
\* set after the change.
C6_ViewerCountSentOnChange ==
    /\ (/\ last.kind \in {"join-stream", "leave-stream"}
        /\ Has(pre.streams, last.stream))
       => (/\ Has(activeStreams, last.stream)
           /\ LET stream == activeStreams[last.stream]
              IN  stream.broadcasterId \in connected =>
                  /\ Received(stream.broadcasterId, "viewer-count") = 1
                  /\ ReceivedCount(stream.broadcasterId,
                                   Cardinality(stream.viewers)) = 1)
    /\ last.kind = "disconnect" =>
          \A s \in DOMAIN pre.streams :
              (/\ last.conn \in pre.streams[s].viewers
               /\ pre.streams[s].broadcasterId # last.conn)
              => (/\ Has(activeStreams, s)
                  /\ last.conn \notin activeStreams[s].viewers
                  /\ LET stream == activeStreams[s]
                     IN  stream.broadcasterId \in connected =>
                         /\ Received(stream.broadcasterId, "viewer-count") = 1
                         /\ ReceivedCount(stream.broadcasterId,
                                          Cardinality(stream.viewers)) = 1)

\* C7: a join-stream by V for a stream id without a session sends V
\* stream-status(false) and leaves a session for that id in the registry
\* with active=false and the viewer set {V}.
C7_JoinCreatesInactiveSession ==
    (last.kind = "join-stream" /\ ~Has(pre.streams, last.stream))
    => (/\ ReceivedStatus(last.conn, FALSE) = 1
        /\ Has(activeStreams, last.stream)
        /\ ~activeStreams[last.stream].isActive
        /\ activeStreams[last.stream].viewers = {last.conn})

\* the sockets that joined stream s as viewers while it had no session and
\* are still waiting in its room when the last handler ran
EarlyViewers(s) ==
    {v \in pre.rooms[s] : /\ pre.data[v].streamId = s
                          /\ ~pre.data[v].isBroadcaster}

\* C8: when viewers joined S before any broadcaster started it and B then
\* sends start-stream(S), each of them gets stream-status(true) and B is
\* sent a viewer-count equal to their number.
C8_StartNotifiesEarlyViewers ==
    (/\ last.kind = "start-stream"
     /\ ~Has(pre.streams, last.stream)
     /\ EarlyViewers(last.stream) \ {last.conn} # {})
    => (/\ \A v \in EarlyViewers(last.stream) \ {last.conn} :
              ReceivedStatus(v, TRUE) = 1
        /\ ReceivedCount(last.conn,
              Cardinality(EarlyViewers(last.stream) \ {last.conn})) = 1)

\* C9: when the registered broadcaster of S sends end-stream(S), every
\* connected viewer of S gets end-stream and stream-status(false), the
\* broadcaster gets neither, and S is gone from the registry afterwards.
C9_BroadcasterEndStream ==
    (/\ last.kind = "end-stream"
     /\ Has(pre.streams, last.stream)
     /\ pre.streams[last.stream].broadcasterId = last.conn)
    => (/\ \A v \in LiveViewers(last.stream, last.conn) :
              /\ Received(v, "end-stream") >= 1
              /\ ReceivedStatus(v, FALSE) >= 1
        /\ Received(last.conn, "end-stream") = 0
        /\ Received(last.conn, "stream-status") = 0
        /\ ~Has(activeStreams, last.stream))

\* the broadcaster ends a session that a connected viewer is watching
C9_Witness ==
    /\ last.kind = "end-stream"
    /\ Has(pre.streams, last.stream)
    /\ pre.streams[last.stream].broadcasterId = last.conn
    /\ LiveViewers(last.stream, last.conn) # {}
    /\ \A v \in LiveViewers(last.stream, last.conn) :
          Received(v, "end-stream") = 1

\* C10: every id in the viewer set of session S belongs to a connection
\* whose recorded stream id is S.
C10_ViewersRecordedOnSession ==
    \A s \in DOMAIN activeStreams :
        \A v \in activeStreams[s].viewers : socketData[v].streamId = s

\* the registry entry of stream s after handling, in a relay without a
\* session s, a join-stream(s) by v and a start-stream(s) by b
JoinThenStart(v, b, s) ==
    OnStartStream(OnJoinStream(RelayState, v, s).st, b, s).st.streams[s]

StartThenJoin(v, b, s) ==
    OnJoinStream(OnStartStream(RelayState, b, s).st, v, s).st.streams[s]

\* C11: at a relay without a session S, a viewer's join-stream(S) and a
\* broadcaster's start-stream(S) from another connection give the same
\* registry entry for S (broadcaster id, viewer set, active flag) in either
\* order of handling.
C11_JoinStartCommute ==
    \A s \in Streams : \A v \in connected : \A b \in connected \ {v} :
        ~Has(activeStreams, s) => JoinThenStart(v, b, s) = StartThenJoin(v, b, s)

\* C12: an offer for S from a connection that is not recorded as S's
\* broadcaster is delivered to nobody.
C12_OfferOnlyFromBroadcaster ==
    (/\ last.kind = "offer"
     /\ Has(pre.streams, last.stream)
     /\ pre.streams[last.stream].broadcasterId # last.conn)
    => sent = EmptyBag

C14_IceUnicastToTarget ==
    (/\ last.kind = "ice-candidate"
     /\ Has(pre.streams, last.stream)
     /\ pre.streams[last.stream].broadcasterId = last.conn
     /\ pre.data[last.conn].isBroadcaster
     /\ last.data.toId \notin {NoId, last.conn})
    => (/\ \A m \in DOMAIN sent :
              m.kind = "ice-candidate" /\ m.to = last.data.toId
        /\ last.data.toId \in LiveViewers(last.stream, last.conn)
              => Received(last.data.toId, "ice-candidate") = 1
        /\ last.data.toId \notin (pre.streams[last.stream].viewers
                                  \cup pre.rooms[last.stream])
              => sent = EmptyBag)

\* C15: an end-stream from a connection that is not the session's
\* registered broadcaster is answered with an error to the requester, and
\* nobody else gets any message.
C15_RejectedEndStreamErrors ==
    (/\ last.kind = "end-stream"
     /\ Has(pre.streams, last.stream)
     /\ pre.streams[last.stream].broadcasterId # last.conn)
    => (/\ Received(last.conn, "error") = 1
        /\ \A m \in DOMAIN sent : m.to = last.conn)

\* C16: a start-stream(S) from B2 while another connection B1 holds session
\* S makes B2 the recorded broadcaster, sets active, and leaves the viewer
\* set of S as it was.
C16_StartStreamReplacesBroadcaster ==
    (/\ last.kind = "start-stream"
     /\ Has(pre.streams, last.stream)
     /\ pre.streams[last.stream].broadcasterId # last.conn)
    => (/\ Has(activeStreams, last.stream)
        /\ activeStreams[last.stream].broadcasterId = last.conn
        /\ activeStreams[last.stream].isActive
        /\ activeStreams[last.stream].viewers
              = pre.streams[last.stream].viewers)

\* a second broadcaster takes over a session that has a viewer
C16_Witness ==
    /\ last.kind = "start-stream"
    /\ Has(pre.streams, last.stream)
    /\ pre.streams[last.stream].broadcasterId \in connected \ {last.conn}
    /\ pre.streams[last.stream].viewers # {}
    /\ activeStreams[last.stream].broadcasterId = last.conn

\* C17: every join-stream(S) is answered with exactly one stream-status, to
\* the caller and to nobody else, whose value is true exactly when S had an
\* active session; no offer is sent while the join is handled.
C17_JoinAnsweredWithStatus ==
    last.kind = "join-stream" =>
        /\ Received(last.conn, "stream-status") = 1
        /\ \A m \in DOMAIN sent :
              /\ m.kind # "offer"
              /\ m.kind = "stream-status" =>
                    /\ m.to = last.conn
                    /\ m.flag = (/\ Has(pre.streams, last.stream)
                                 /\ pre.streams[last.stream].isActive)

\* a viewer joins a session that another connected socket broadcasts
C17_Witness ==
    /\ last.kind = "join-stream"
    /\ Has(pre.streams, last.stream)
    /\ pre.streams[last.stream].broadcasterId \in connected \ {last.conn}
    /\ ReceivedStatus(last.conn, TRUE) = 1
    /\ Received(pre.streams[last.stream].broadcasterId, "viewer-count") = 1

\* C18: an offer, answer, ice-candidate, end-stream or leave-stream that
\* names a stream id without a session is dropped: the registry and every
\* socket's data are unchanged, nobody else gets a message, and the sender
\* stays connected.
C18_UnknownStreamDropped ==
    (/\ last.kind \in {"offer", "answer", "ice-candidate", "end-stream",
                       "leave-stream"}
     /\ ~Has(pre.streams, last.stream))
    => (/\ activeStreams = pre.streams
        /\ socketData = pre.data
        /\ connected = pre.connected
        /\ last.conn \in connected
        /\ \A m \in DOMAIN sent : m.to = last.conn)

\* an offer for a stream id without a session while another socket waits
\* in that stream's room
C18_Witness ==
    /\ last.kind = "offer"
    /\ last.stream \in Streams
    /\ ~Has(pre.streams, last.stream)
    /\ pre.rooms[last.stream] \ {last.conn} # {}
    /\ sent = EmptyBag

\* the stream id an event concerns: its argument, or for a disconnect the
\* stream id recorded in the socket's data
ConcernedStream ==
    IF last.kind = "disconnect"
    THEN pre.data[last.conn].streamId
    ELSE last.stream

\* C19: handling a message or disconnect that concerns stream id S leaves
\* the registry entry of every other stream id unchanged.
C19_OtherSessionsUntouched ==
    \A s \in Streams \ {ConcernedStream} :
        /\ Has(activeStreams, s) <=> Has(pre.streams, s)
        /\ Has(activeStreams, s) => activeStreams[s] = pre.streams[s]

\* a session is ended or changed while another session exists
C19_Witness ==
    /\ last.kind \in {"end-stream", "disconnect", "join-stream"}
    /\ activeStreams # pre.streams
    /\ \E s \in Streams \ {ConcernedStream} : Has(pre.streams, s)

\* C20: on the viewer and on the broadcaster page, an ice-candidate that
\* arrives before the remote description is applied is neither dropped nor
\* applied early: every candidate that arrived is applied or waiting, in
\* arrival order, and nothing is applied to a transport without a remote
\* description.
C20_CandidatesBuffered ==
    /\ iceApplied \o pcQueue = iceArrived
    /\ peerConnectionRef # "remote" => iceApplied = << >>
    /\ bIceApplied = bIceArrived

\* C21: for every answer the broadcaster page received for the offer it
\* sent, tagged with viewer V, the page holds a peer transport for V and
\* has given that transport the answer as its remote description.
C21_AnswerAppliedToViewerTransport ==
    \A v \in bAnswers : v \in viewerConnections /\ v \in bRemoteSet

\* C22: on the viewer page a stream-ended notification closes and drops the
\* peer transport and clears the active flag, and a stream-available
\* notification never closes the transport.
C22_StreamEndedClosesTransport ==
    [][ /\ VOnStreamEnded =>
            peerConnectionRef' = "null" /\ isStreamActive' = FALSE
        /\ VOnStreamAvailable => peerConnectionRef' = peerConnectionRef
      ]_vars

\* C23: whenever the message channel of a page is connected, the page has
\* issued its role intent on that connection: the viewer page its join, the
\* broadcaster page, while it is streaming, its join-as-broadcaster.
C23_IntentReissuedOnReconnect ==
    /\ vSocket = "connected" => vIntentSent
    /\ (bSocket = "connected" /\ bStreaming) => bIntentSent

\* C24: between handlers, the broadcaster id of every session in
\* activeStreams is the id of a connected socket.
C24_BroadcasterIsConnected ==
    \A s \in DOMAIN activeStreams :
        activeStreams[s].broadcasterId \in connected

\* C25: between handlers, every id in a session's viewer set is the id of a
\* connected socket.
C25_ViewersAreConnected ==
    \A s \in DOMAIN activeStreams : activeStreams[s].viewers \subseteq connected

\* C26: when a connection B1 that started session S, and has since been
\* replaced as its broadcaster by a connected B2, disconnects, S stays in
\* the registry and nobody is sent end-stream or stream-status(false).
C26_ReplacedBroadcasterLeavesQuietly ==
    (/\ last.kind = "disconnect"
     /\ pre.data[last.conn].isBroadcaster
     /\ Has(pre.streams, pre.data[last.conn].streamId)
     /\ pre.streams[pre.data[last.conn].streamId].broadcasterId
            \in connected \ {last.conn})
    => /\ Has(activeStreams, pre.data[last.conn].streamId)
       /\ \A c \in connected :
            /\ Received(c, "end-stream") = 0
            /\ ReceivedStatus(c, FALSE) = 0

\* number of events of one kind the last step of the global-broadcast
\* relay sent to socket c
GReceived(c, kind) ==
    BagCardinality([m \in {x \in BagToSet(gSent) :
                              x.to = c /\ x.kind = kind} |->
                       CopiesIn(m, gSent)])

\* C27: in the global-broadcast relay a stop-broadcast or disconnect from a
\* connection whose recorded role is not broadcaster sends stream-ended to
\* nobody, and one from a broadcaster sends exactly one stream-ended to
\* every other connection (so a broadcast that is stopped and then
\* disconnected is announced once).
C27_StreamEndedOnlyForBroadcaster ==
    gLast.kind \in {"stop-broadcast", "disconnect"} =>
        \A x \in DOMAIN connections \ {gLast.conn} :
            GReceived(x, "stream-ended")
                = IF gPre = "broadcaster" THEN 1 ELSE 0

\* C28: a viewer page that has handled stream-ended is still connected to
\* the relay, in the viewer role.
C28_ViewerStaysAfterStreamEnded ==
    \A c \in ClientIds :
        page[c].endedSeen =>
            c \in DOMAIN connections /\ connections[c].role = "viewer"

\* the connected broadcaster pages that are broadcasting
LiveBroadcasters ==
    {b \in DOMAIN connections : /\ page[b].kind = "broadcast"
                                /\ page[b].isStreaming
                                /\ connections[b].role = "broadcaster"}

\* a connected viewer page has requested the stream of a live broadcast
Requesting(v) ==
    /\ v \in DOMAIN connections
    /\ page[v].kind = "watch"
    /\ page[v].requested
    /\ LiveBroadcasters # {}

\* C29: while a broadcast is active and both peers stay connected, a viewer
\* page that requested the stream eventually has a peer transport at a
\* broadcaster page and has received an offer.
C29_RequestLeadsToOffer ==
    \A v \in ClientIds :
        Requesting(v) ~>
            \/ ~Requesting(v)
            \/ /\ page[v].offerSeen
               /\ \E b \in LiveBroadcasters : v \in page[b].peers

\* the sockets of the module on which disconnect() has not been called
OpenSockets == {i \in DOMAIN sockets : sockets[i] # "closed"}

\* C30: after any sequence of initializeSocket and disconnectSocket calls
\* at most one socket made by the module has not been disconnected, it is
\* the one the module variable holds, and an initializeSocket called while
\* that socket is connected returns it and creates nothing.
C30_AtMostOneOpenSocket ==
    /\ Cardinality(OpenSockets) <= 1
    /\ OpenSockets \subseteq {socket}
    /\ (lastCall.name = "initializeSocket" /\ lastCall.wasConnected) =>
          /\ ~lastCall.created
          /\ lastCall.returned = socket

\* an unconnected socket was replaced, the new one connected, and a further
\* initializeSocket returned it
C30_Witness ==
    /\ Len(sockets) = 2
    /\ sockets[1] = "closed"
    /\ sockets[2] = "connected"
    /\ socket = 2
    /\ lastCall.name = "initializeSocket"
    /\ lastCall.wasConnected

====
